---- MODULE Spec2Model ----
(***************************************************************************)
(* A model of solve.py, the package-manager dependency resolver:           *)
(* parse (constraint resolution), problem_to_cnf / problem_to_wcnf (the    *)
(* Weighted Partial Max-SAT reduction), run_solver (the external solver,   *)
(* an oracle returning a total assignment that satisfies every hard        *)
(* clause), remove_p_to_commands / add_p_to_commands / toposort (the       *)
(* sequencer) and the cycle-recovery loop of solve_wcnf.                   *)
(*                                                                         *)
(* A package is identified by its sat_number, its index in SAT_NUMBER,     *)
(* which is also its index in repository_data.                             *)
(***************************************************************************)
EXTENDS Integers, Sequences, FiniteSets, TLC

VARIABLES
    repository_data,   \* input: the repository document (sequence of package_data)
    initial_data,      \* input: the initial document (sequence of references)
    constraints_data,  \* input: the constraints document (sequence of +/- constraints)
    dependencies,      \* Package.dependencies of every package, by sat_number
    conflicts,         \* Package.conflicts of every package, by sat_number
    initial,           \* parse: the installed packages
    uninstall,         \* parse: the packages forced out
    install,           \* parse: the install constraints
    wcnf,              \* solve_wcnf: the clause lines of the formula
    remove_p,          \* run_solver: the packages assigned false, as listed
    add_p,             \* run_solver: the packages assigned true, as listed
    commands,          \* the emitted command list
    pc,                \* "parse", "encode", "solve", "done" or "fatal"
    error,             \* the exception that ended or restarted the last step
    retries,           \* the blocking clauses appended so far in this run
    optimal,           \* every assignment the solver returned so far was optimal
    run                \* 1: the first invocation, 2: the invocation on its result

vars == <<repository_data, initial_data, constraints_data, dependencies,
          conflicts, initial, uninstall, install, wcnf, remove_p, add_p,
          commands, pc, error, retries, optimal, run>>

----------------------------------------------------------------------------
(* Bounds and program constants *)

\* package sizes are drawn from 0..MaxSize
MaxSize == 1

UNINSTALL_COST == 1000000

\* UNINSTALL_COST ** 2 exceeds the 32-bit integers of TLC: a weight is the
\* sequence of its factors, a soft weight w being <<w>>.
MAX_WEIGHT == <<UNINSTALL_COST, UNINSTALL_COST>>

----------------------------------------------------------------------------
(* Sequence helpers standing for Python's list operations *)

Range(s) == {s[i] : i \in 1..Len(s)}

\* x in s
In(x, s) == \E i \in 1..Len(s) : s[i] = x

\* [x for x in s if x in keep]
Filter(s, keep) == SelectSeq(s, LAMBDA x : x \in keep)

RECURSIVE Concat(_)
\* the concatenation of a sequence of sequences
Concat(ss) == IF ss = <<>> THEN <<>> ELSE Head(ss) \o Concat(Tail(ss))

RECURSIVE Sum(_,_)
Sum(f, S) == IF S = {} THEN 0
             ELSE LET x == CHOOSE y \in S : TRUE IN f[x] + Sum(f, S \ {x})

\* every ordering of the set S as a sequence without repetition
Orderings(S) ==
    {s \in [1..Cardinality(S) -> S] : \A i, j \in 1..Cardinality(S) : s[i] = s[j] => i = j}

\* list.remove(x): the first occurrence of x is removed
ListRemove(s, x) ==
    LET i == CHOOSE k \in 1..Len(s) : s[k] = x /\ \A j \in 1..(k - 1) : s[j] # x
    IN  SubSeq(s, 1, i - 1) \o SubSeq(s, i + 1, Len(s))

----------------------------------------------------------------------------
(* Constraint *)

\* Constraint.__init__: name, constraint (the relation, "none" for None), version
Constraint(name, relation, version) ==
    [name |-> name, constraint |-> relation, version |-> version]

RECURSIVE ListLess(_,_)
\* Python's list < list on versions: element-wise, a proper prefix being smaller
ListLess(v, w) ==
    IF w = <<>> THEN FALSE
    ELSE IF v = <<>> THEN TRUE
    ELSE IF Head(v) = Head(w) THEN ListLess(Tail(v), Tail(w))
    ELSE Head(v) < Head(w)

\* Constraint.fulfilled_by(package)
fulfilled_by(c, package) ==
    IF c.name # package.name THEN FALSE
    ELSE CASE c.constraint = "none" -> TRUE
           [] c.constraint = "="  -> package.version = c.version
           [] c.constraint = "<"  -> ListLess(package.version, c.version)
           [] c.constraint = ">"  -> ListLess(c.version, package.version)
           [] c.constraint = "<=" -> ~ListLess(c.version, package.version)
           [] c.constraint = ">=" -> ~ListLess(package.version, c.version)

----------------------------------------------------------------------------
(* Repository and Package *)

\* the sat_numbers of the packages of a repository document
SatNumbers(repo) == 1..Len(repo)

\* name in repository
NameInRepository(repo, name) == \E n \in SatNumbers(repo) : repo[n].name = name

\* the packages matching a constraint, in repository[constraint.name] order
\* (the loop "for package in repository[name]: if constraint.fulfilled_by(package)")
Matching(repo, c) ==
    SelectSeq([n \in 1..Len(repo) |-> n], LAMBDA n : fulfilled_by(c, repo[n]))

\* find_constraint_options, "parse dependencies": one list per raw disjunction,
\* every match of every atom appended, an empty list not kept
ResolveDependencies(repo, p) ==
    LET raw == repo[p].depends
        depends(i) == Concat([k \in 1..Len(raw[i]) |-> Matching(repo, raw[i][k])])
    IN  SelectSeq([i \in 1..Len(raw) |-> depends(i)], LAMBDA d : Len(d) # 0)

\* find_constraint_options, "parse conflicts": every match of every raw conflict
ResolveConflicts(repo, p) ==
    LET raw == repo[p].conflicts
    IN  Concat([k \in 1..Len(raw) |-> Matching(repo, raw[k])])

RECURSIVE Rationalise(_,_)
\* find_constraint_options, "rationalise dependency list": for every entry of
\* conflicts, in order, its first occurrence is removed from every list holding it
Rationalise(deps, confl) ==
    IF confl = <<>> THEN deps
    ELSE Rationalise(
            [i \in 1..Len(deps) |->
                IF In(Head(confl), deps[i]) THEN ListRemove(deps[i], Head(confl))
                ELSE deps[i]],
            Tail(confl))

\* find_constraint_options dropping a dependency list that rationalisation
\* emptied
find_constraint_options_dropping(repo, p) ==
    LET confl == ResolveConflicts(repo, p)
    IN  [dependencies |->
            SelectSeq(Rationalise(ResolveDependencies(repo, p), confl),
                      LAMBDA d : Len(d) # 0),
         conflicts    |-> confl]

\* Package.find_constraint_options: [dependencies, conflicts] of package p
find_constraint_options(repo, p) ==
    LET confl == ResolveConflicts(repo, p)
    IN  [dependencies |-> Rationalise(ResolveDependencies(repo, p), confl),
         conflicts    |-> confl]

----------------------------------------------------------------------------
(* parse *)

\* the first package fulfilling a reference, as the one-element list appended
\* by "for package in repository[name]: if fulfilled_by: append; break"
FirstMatch(repo, c) ==
    IF Matching(repo, c) = <<>> THEN <<>> ELSE <<Head(Matching(repo, c))>>

\* parse, "parse initial_data": repository[constraint.name] raises KeyError
ParseInitial(repo, refs) ==
    IF \E i \in 1..Len(refs) : ~NameInRepository(repo, refs[i].name)
    THEN [error |-> "KeyError", initial |-> <<>>]
    ELSE [error |-> "none",
          initial |-> Concat([i \in 1..Len(refs) |-> FirstMatch(repo, refs[i])])]

\* parse, "parse constraints_data": "-" entries give uninstall (the first match
\* of each, the name asserted to be in the repository), the others give install
ParseConstraints(repo, cdata) ==
    LET minus == SelectSeq(cdata, LAMBDA d : d.op = "-")
        plus  == SelectSeq(cdata, LAMBDA d : d.op # "-")
    IN  IF \E i \in 1..Len(minus) : ~NameInRepository(repo, minus[i].constraint.name)
        THEN [error |-> "AssertionError", uninstall |-> <<>>, install |-> <<>>]
        ELSE [error |-> "none",
              uninstall |-> Concat([i \in 1..Len(minus) |->
                                        FirstMatch(repo, minus[i].constraint)]),
              install |-> [i \in 1..Len(plus) |-> plus[i].constraint]]

\* parse(repository_data, initial_data, constraints_data)
parse(repo, refs, cdata) ==
    LET options == [p \in SatNumbers(repo) |-> find_constraint_options(repo, p)]
        ini     == ParseInitial(repo, refs)
        con     == ParseConstraints(repo, cdata)
    IN  [dependencies |-> [p \in SatNumbers(repo) |-> options[p].dependencies],
         conflicts    |-> [p \in SatNumbers(repo) |-> options[p].conflicts],
         error        |-> IF ini.error # "none" THEN ini.error ELSE con.error,
         initial      |-> ini.initial,
         uninstall    |-> IF ini.error # "none" THEN <<>> ELSE con.uninstall,
         install      |-> IF ini.error # "none" THEN <<>> ELSE con.install]

----------------------------------------------------------------------------
(* problem_to_cnf, problem_to_wcnf *)

\* repository.values() flattened: the packages grouped by name, the names in
\* the order of their first package, the versions in input order
RepositoryOrder(repo) ==
    Concat([i \in 1..Len(repo) |->
              IF \E j \in 1..(i - 1) : repo[j].name = repo[i].name THEN <<>>
              ELSE SelectSeq([n \in 1..Len(repo) |-> n],
                             LAMBDA n : repo[n].name = repo[i].name)])

\* the clauses of one package without those of its conflicts
PackageClausesNoConflicts(deps, confl, p) ==
    [k \in 1..Len(deps[p]) |-> <<-p>> \o deps[p][k]]

\* the clauses of one package: "A conflicts B -> !A OR !B" for every entry of
\* conflicts, then "A requires B or C -> !A OR B OR C" for every dependency list
PackageClauses(deps, confl, p) ==
    [k \in 1..Len(confl[p]) |-> <<-p, -confl[p][k]>>]
    \o [k \in 1..Len(deps[p]) |-> <<-p>> \o deps[p][k]]

\* problem_to_cnf: the literal lists of the clause lines, in order; KeyError
\* when an install constraint names no package of the repository
problem_to_cnf(repo, deps, confl, uninst, inst) ==
    IF \E i \in 1..Len(inst) : ~NameInRepository(repo, inst[i].name)
    THEN [error |-> "KeyError", clauses |-> <<>>]
    ELSE [error |-> "none",
          clauses |->
            Concat([i \in 1..Len(repo) |->
                        PackageClauses(deps, confl, RepositoryOrder(repo)[i])])
            \o [i \in 1..Len(uninst) |-> <<-uninst[i]>>]
            \o [i \in 1..Len(inst) |-> Matching(repo, inst[i])]]

\* problem_to_wcnf: every clause of problem_to_cnf with weight MAX_WEIGHT, then
\* "size -p" for every package and "UNINSTALL_COST p" for every entry of initial
problem_to_wcnf(repo, deps, confl, ini, uninst, inst) ==
    LET cnf == problem_to_cnf(repo, deps, confl, uninst, inst)
    IN  [error |-> cnf.error,
         clauses |->
            [i \in 1..Len(cnf.clauses) |->
                [weight |-> MAX_WEIGHT, lits |-> cnf.clauses[i]]]
            \o [i \in 1..Len(repo) |->
                [weight |-> <<repo[RepositoryOrder(repo)[i]].size>>,
                 lits |-> <<-RepositoryOrder(repo)[i]>>]]
            \o [i \in 1..Len(ini) |->
                [weight |-> <<UNINSTALL_COST>>, lits |-> <<ini[i]>>]]]

----------------------------------------------------------------------------
(* The external solver behind run_solver *)

\* the set S of true variables satisfies a clause line
Satisfies(S, lits) ==
    \E i \in 1..Len(lits) :
        \/ lits[i] > 0 /\ lits[i] \in S
        \/ lits[i] < 0 /\ (-lits[i]) \notin S

\* the total assignments (as sets of true variables) satisfying every clause
\* of weight MAX_WEIGHT
Models(clauses, n) ==
    {S \in SUBSET (1..n) :
        \A i \in 1..Len(clauses) :
            clauses[i].weight = MAX_WEIGHT => Satisfies(S, clauses[i].lits)}

\* the weight of the soft clauses S satisfies
SoftWeight(clauses, S) ==
    LET soft == {i \in 1..Len(clauses) :
                    clauses[i].weight # MAX_WEIGHT /\ Satisfies(S, clauses[i].lits)}
    IN  Sum([i \in soft |-> clauses[i].weight[1]], soft)

\* S is an answer of an optimal Max-SAT solver
IsOptimal(clauses, n, S) ==
    \A T \in Models(clauses, n) : SoftWeight(clauses, T) <= SoftWeight(clauses, S)

----------------------------------------------------------------------------
(* toposort *)

RECURSIVE BisectRight(_,_,_,_)
\* bisect.bisect_right(a, x, lo, hi) with 0-based lo and hi: the binary search
\* as it runs, whether or not a is sorted
BisectRight(a, x, lo, hi) ==
    IF lo < hi
    THEN LET mid == (lo + hi) \div 2
         IN  IF x < a[mid + 1] THEN BisectRight(a, x, lo, mid)
             ELSE BisectRight(a, x, mid + 1, hi)
    ELSE lo

\* bisect.insort(a, x)
Insort(a, x) ==
    LET at == BisectRight(a, x, 0, Len(a))
    IN  SubSeq(a, 1, at) \o <<x>> \o SubSeq(a, at + 1, Len(a))

RECURSIVE Relax(_,_,_)
\* toposort, "for outgoing_node in nodes[node]": the count of each successor is
\* decremented; one that reaches zero and is not queued is insorted
Relax(outgoing, count, to_remove) ==
    IF outgoing = <<>> THEN [count |-> count, to_remove |-> to_remove]
    ELSE LET o == Head(outgoing)
             c == [count EXCEPT ![o] = @ - 1]
         IN  Relax(Tail(outgoing), c,
                   IF c[o] = 0 /\ ~In(o, to_remove) THEN Insort(to_remove, o)
                   ELSE to_remove)

RECURSIVE ToposortLoop(_,_,_,_,_)
\* toposort, "for _ in range(len(nodes))": i iterations are left
ToposortLoop(i, nodes, count, to_remove, output) ==
    IF i = 0 THEN [error |-> "none", output |-> output]
    ELSE IF Len(to_remove) = 0 THEN [error |-> "ToposortError", output |-> output]
    ELSE LET node == Head(to_remove)
             r    == Relax(nodes[node], count, Tail(to_remove))
         IN  ToposortLoop(i - 1, nodes, r.count, r.to_remove, Append(output, node))

\* the queue toposort starts from: the keys of nodes with count 0, in key order
InitialQueue(keys, count) == SelectSeq(keys, LAMBDA k : count[k] = 0)

\* toposort returning the nodes in key order, the edges ignored
toposort_key_order(keys, nodes, count) == [error |-> "none", output |-> keys]

\* toposort(nodes, count); keys is nodes.keys() in iteration order
toposort(keys, nodes, count) ==
    ToposortLoop(Len(keys), nodes, count, InitialQueue(keys, count), <<>>)

----------------------------------------------------------------------------
(* remove_p_to_commands, add_p_to_commands *)

\* str(package) behind a "+" or "-": the command names a package by name and version
Command(repo, op, n) == [op |-> op, name |-> repo[n].name, version |-> repo[n].version]

\* the number of entries of the list s that lie in the set S
CountIn(s, S) == Cardinality({i \in 1..Len(s) : s[i] \in S})

\* remove_p_to_commands, the graph: for every removed package and every entry of
\* its dependency lists that is removed too, an edge entry -> package
RemoveGraph(deps, rp) ==
    LET flat(p) == Concat(deps[p])
    IN  [keys  |-> rp,
         nodes |-> [d \in Range(rp) |->
                      Concat([i \in 1..Len(rp) |->
                                [k \in 1..CountIn(flat(rp[i]), {d}) |-> rp[i]]])],
         count |-> [p \in Range(rp) |-> CountIn(flat(p), Range(rp))]]

\* remove_p_to_commands(remove_p, initial)
remove_p_to_commands(repo, deps, rem, ini) ==
    LET rp == Filter(rem, Range(ini))
        g  == RemoveGraph(deps, rp)
        t  == toposort(g.keys, g.nodes, g.count)
    IN  [error |-> t.error,
         commands |-> [i \in 1..Len(t.output) |->
                          Command(repo, "-", t.output[Len(t.output) + 1 - i])],
         initial |-> Filter(ini, Range(ini) \ Range(rp))]

\* add_p_to_commands, one dependency list of an added package: -1 when an entry
\* is in initial (no edge), else the first entry that is added (the source of
\* the edge), else 0 (not fulfilled)
EdgeSource(list, ap, ini) ==
    IF \E i \in 1..Len(list) : In(list[i], ini) THEN -1
    ELSE IF \E i \in 1..Len(list) : In(list[i], ap)
         THEN list[CHOOSE i \in 1..Len(list) :
                      In(list[i], ap) /\ \A j \in 1..(i - 1) : ~In(list[j], ap)]
         ELSE 0

\* add_p_to_commands, the graph over the packages to install
AddGraph(deps, ap, ini) ==
    LET sources(p) == [k \in 1..Len(deps[p]) |-> EdgeSource(deps[p][k], ap, ini)]
    IN  [unfulfilled |-> \E p \in Range(ap) : In(0, sources(p)),
         keys  |-> ap,
         nodes |-> [d \in Range(ap) |->
                      Concat([i \in 1..Len(ap) |->
                                [k \in 1..CountIn(sources(ap[i]), {d}) |-> ap[i]]])],
         count |-> [p \in Range(ap) |-> CountIn(sources(p), Range(ap))]]

\* add_p_to_commands(add_p, initial)
add_p_to_commands(repo, deps, add, ini) ==
    LET ap == Filter(add, (1..Len(repo)) \ Range(ini))
        g  == AddGraph(deps, ap, ini)
        t  == toposort(g.keys, g.nodes, g.count)
    IN  IF g.unfulfilled
        THEN [error |-> "Exception", commands |-> <<>>, initial |-> ini]
        ELSE [error |-> t.error,
              commands |-> [i \in 1..Len(t.output) |-> Command(repo, "+", t.output[i])],
              initial |-> ini \o ap]

----------------------------------------------------------------------------
(* solve_wcnf *)

\* the blocking clause with the solution not inverted
BlockingClauseNotInverted(add) ==
    [weight |-> MAX_WEIGHT, lits |-> [i \in 1..Len(add) |-> add[i]]]

\* solve_wcnf, the except branch: the clause appended after a ToposortError,
\* MAX_WEIGHT_STR + " ".join(str(-p.sat_number) for p in add_p)
BlockingClause(add) ==
    [weight |-> MAX_WEIGHT, lits |-> [i \in 1..Len(add) |-> -add[i]]]

\* solve_wcnf, one iteration after run_solver returned (rem, add): the uninstall
\* side's ToposortError is not caught, the install side's is
Iteration(repo, deps, ini, rem, add) ==
    LET r == remove_p_to_commands(repo, deps, rem, ini)
        a == add_p_to_commands(repo, deps, add, r.initial)
    IN  IF r.error # "none"
        THEN [outcome |-> "fatal", error |-> r.error, commands |-> <<>>]
        ELSE IF a.error = "Exception"
        THEN [outcome |-> "fatal", error |-> a.error, commands |-> <<>>]
        ELSE IF a.error = "ToposortError"
        THEN [outcome |-> "retry", error |-> a.error, commands |-> <<>>]
        ELSE [outcome |-> "done", error |-> "none",
              commands |-> r.commands \o a.commands]

----------------------------------------------------------------------------
(* Replaying a command list *)

\* the packages a command names
Named(repo, c) ==
    {n \in 1..Len(repo) : repo[n].name = c.name /\ repo[n].version = c.version}

\* the state after one command: "+p" adds p, "-p" removes p
Step(repo, state, c) ==
    IF c.op = "+" THEN state \cup Named(repo, c) ELSE state \ Named(repo, c)

RECURSIVE StateBefore(_,_,_,_)
\* the state in which command number i of cmds is applied
StateBefore(repo, state, cmds, i) ==
    IF i = 1 THEN state
    ELSE Step(repo, StateBefore(repo, state, cmds, i - 1), cmds[i - 1])

\* the final state: every command applied
FinalState(repo, state, cmds) == StateBefore(repo, state, cmds, Len(cmds) + 1)

----------------------------------------------------------------------------
(* The inputs *)

AnyVersion(name) == Constraint(name, "none", <<>>)

PackageData(name, version, size, depends, conflicts_) ==
    [name |-> name, version |-> version, size |-> size,
     depends |-> depends, conflicts |-> conflicts_]

\* the "depends" of A=1: nothing; any B; B=1; a disjunction whose two atoms match
\* the same versions; a name the repository does not have
DependsOfA ==
    { <<>>,
      << <<AnyVersion("B")>> >>,
      << <<Constraint("B", "=", <<1>>)>> >>,
      << <<AnyVersion("B"), Constraint("B", ">=", <<1>>)>> >>,
      << <<AnyVersion("Z")>> >> }

\* the "conflicts" of A=1
ConflictsOfA == { <<>>, <<AnyVersion("B")>>, <<Constraint("B", "<", <<2>>)>> }

\* the "depends" of B=1 and its "conflicts" (the later version)
DependsOfB == { <<>>, << <<AnyVersion("A")>> >> }
ConflictsOfB == { <<>>, <<Constraint("B", ">", <<1>>)>> }

Sizes == 0..MaxSize

\* the repository documents: A=1 of any size, B=1 of size 1, B=2 of size 2
Repositories ==
    { << PackageData("A", <<1>>, sa, da, ca),
         PackageData("B", <<1>>, 1, db, cb),
         PackageData("B", <<2>>, 2, <<>>, <<>>) >> :
        sa \in Sizes, da \in DependsOfA, ca \in ConflictsOfA,
        db \in DependsOfB, cb \in ConflictsOfB }

Ref(name, version) == Constraint(name, "=", version)

\* the initial documents: the installed versions, a version the repository does
\* not have, a name it does not have
InitialDocuments ==
    { <<>>, <<Ref("A", <<1>>)>>, <<Ref("B", <<1>>)>>, <<Ref("B", <<2>>)>>,
      <<Ref("A", <<1>>), Ref("B", <<1>>)>>, <<Ref("A", <<1>>), Ref("B", <<2>>)>>,
      <<Ref("B", <<1>>), Ref("B", <<2>>)>>,
      <<Ref("A", <<1>>), Ref("B", <<1>>), Ref("B", <<2>>)>>,
      <<Ref("B", <<3>>)>>, <<Ref("Z", <<1>>)>> }

Plus(c) == [op |-> "+", constraint |-> c]
Minus(c) == [op |-> "-", constraint |-> c]

\* the constraints documents
ConstraintsDocuments ==
    { <<>>, <<Plus(AnyVersion("A"))>>, <<Plus(AnyVersion("B"))>>,
      <<Plus(Constraint("B", ">", <<1>>))>>, <<Plus(AnyVersion("Z"))>>,
      <<Minus(AnyVersion("A"))>>, <<Minus(AnyVersion("B"))>>, <<Minus(Ref("B", <<1>>))>>,
      <<Minus(Ref("B", <<3>>))>>, <<Minus(AnyVersion("Z"))>>,
      <<Plus(AnyVersion("A")), Minus(Ref("B", <<1>>))>> }

----------------------------------------------------------------------------
(* The state machine *)

Init ==
    /\ repository_data \in Repositories
    /\ initial_data \in InitialDocuments
    /\ constraints_data \in ConstraintsDocuments
    /\ dependencies = <<>>
    /\ conflicts = <<>>
    /\ initial = <<>>
    /\ uninstall = <<>>
    /\ install = <<>>
    /\ wcnf = <<>>
    /\ remove_p = <<>>
    /\ add_p = <<>>
    /\ commands = <<>>
    /\ pc = "parse"
    /\ error = "none"
    /\ retries = 0
    /\ optimal = TRUE
    /\ run = 1

\* main: parse(**args)
Parse ==
    /\ pc = "parse"
    /\ LET r == parse(repository_data, initial_data, constraints_data)
       IN  /\ dependencies' = r.dependencies
           /\ conflicts' = r.conflicts
           /\ initial' = r.initial
           /\ uninstall' = r.uninstall
           /\ install' = r.install
           /\ error' = r.error
           /\ pc' = IF r.error = "none" THEN "encode" ELSE "fatal"
    /\ UNCHANGED <<repository_data, initial_data, constraints_data, wcnf,
                   remove_p, add_p, commands, retries, optimal, run>>

\* solve_wcnf: wcnf = problem_to_wcnf(repository, initial, uninstall, install)
Encode ==
    /\ pc = "encode"
    /\ LET r == problem_to_wcnf(repository_data, dependencies, conflicts,
                                initial, uninstall, install)
       IN  /\ wcnf' = r.clauses
           /\ error' = r.error
           /\ pc' = IF r.error = "none" THEN "solve" ELSE "fatal"
    /\ UNCHANGED <<repository_data, initial_data, constraints_data, dependencies,
                   conflicts, initial, uninstall, install, remove_p, add_p,
                   commands, retries, optimal, run>>

\* run_solver: the solver prints no "v" line, SATError
SolverFails ==
    /\ pc = "solve"
    /\ Models(wcnf, Len(repository_data)) = {}
    /\ pc' = "fatal"
    /\ error' = "SATError"
    /\ UNCHANGED <<repository_data, initial_data, constraints_data, dependencies,
                   conflicts, initial, uninstall, install, wcnf, remove_p, add_p,
                   commands, retries, optimal, run>>

\* one iteration of the loop of solve_wcnf: run_solver returns the model S, its
\* true variables listed as add and its false ones as rem, and the iteration
\* ends with the given outcome
Iterate(S, add, rem, outcome) ==
    LET it == Iteration(repository_data, dependencies, initial, rem, add)
    IN  /\ add_p' = add
        /\ remove_p' = rem
        /\ it.outcome = outcome
        /\ optimal' = (optimal /\ IsOptimal(wcnf, Len(repository_data), S))
        /\ error' = it.error
        /\ commands' = it.commands
        /\ wcnf' = IF outcome = "retry" THEN Append(wcnf, BlockingClause(add))
                   ELSE wcnf
        /\ retries' = IF outcome = "retry" THEN retries + 1 ELSE retries
        /\ pc' = IF outcome = "retry" THEN "solve" ELSE outcome
        /\ UNCHANGED <<repository_data, initial_data, constraints_data,
                       dependencies, conflicts, initial, uninstall, install, run>>

\* the iteration emits the command list
Emit ==
    /\ pc = "solve"
    /\ \E S \in Models(wcnf, Len(repository_data)) :
         \E add \in Orderings(S) :
           \E rem \in Orderings((1..Len(repository_data)) \ S) :
             Iterate(S, add, rem, "done")

\* the install side's toposort raised ToposortError: a clause is appended and
\* the solver runs again
Retry ==
    /\ pc = "solve"
    /\ \E S \in Models(wcnf, Len(repository_data)) :
         \E add \in Orderings(S) :
           \E rem \in Orderings((1..Len(repository_data)) \ S) :
             Iterate(S, add, rem, "retry")

\* the iteration ends in an exception solve_wcnf does not catch
Abort ==
    /\ pc = "solve"
    /\ \E S \in Models(wcnf, Len(repository_data)) :
         \E add \in Orderings(S) :
           \E rem \in Orderings((1..Len(repository_data)) \ S) :
             Iterate(S, add, rem, "fatal")

\* the resolver is run again on the same repository and constraints, the final
\* state of the emitted command list being the initial document
Rerun ==
    /\ pc = "done"
    /\ run = 1
    /\ optimal
    /\ LET F == FinalState(repository_data, Range(initial), commands)
           installed == SelectSeq([n \in 1..Len(repository_data) |-> n],
                                  LAMBDA n : n \in F)
       IN  initial_data' = [i \in 1..Len(installed) |->
                              Ref(repository_data[installed[i]].name,
                                  repository_data[installed[i]].version)]
    /\ run' = 2
    /\ pc' = "parse"
    /\ dependencies' = <<>>
    /\ conflicts' = <<>>
    /\ initial' = <<>>
    /\ uninstall' = <<>>
    /\ install' = <<>>
    /\ wcnf' = <<>>
    /\ remove_p' = <<>>
    /\ add_p' = <<>>
    /\ commands' = <<>>
    /\ error' = "none"
    /\ retries' = 0
    /\ UNCHANGED <<repository_data, constraints_data, optimal>>

Next == Parse \/ Encode \/ SolverFails \/ Emit \/ Retry \/ Abort \/ Rerun

Spec == Init /\ [][Next]_vars

----------------------------------------------------------------------------
(* The states the claims speak about *)

\* the command list has been emitted
Emitted == pc = "done"

\* the state the emitted command list leads to from the initial state
F == FinalState(repository_data, Range(initial), commands)

\* the state in which command number i of the emitted list is applied
Current(i) == StateBefore(repository_data, Range(initial), commands, i)

\* some entry of the dependency list d is in the set of packages st
Witnessed(d, st) == \E k \in 1..Len(d) : d[k] \in st

\* the install and the uninstall constraints of the constraints document
InstallConstraints ==
    {constraints_data[i].constraint :
        i \in {j \in 1..Len(constraints_data) : constraints_data[j].op = "+"}}
UninstallConstraints ==
    {constraints_data[i].constraint :
        i \in {j \in 1..Len(constraints_data) : constraints_data[j].op = "-"}}

\* the packages of the repository fulfilling a constraint
Fulfilling(c) ==
    {n \in 1..Len(repository_data) : fulfilled_by(c, repository_data[n])}

----------------------------------------------------------------------------
(* C1 *)

\* C1: whenever a command list is emitted (the solver's assignments satisfying
\* every hard clause), the final state F it leads to has (a) no member in the
\* resolved conflicts of another member, (b) a member in every resolved
\* dependency disjunction of every member, (c) a member fulfilling every
\* install constraint.
C1_FinalStateValid ==
    Emitted =>
        /\ \A p \in F : \A q \in F \ {p} : ~In(q, conflicts[p])
        /\ \A p \in F : \A k \in 1..Len(dependencies[p]) :
                Witnessed(dependencies[p][k], F)
        /\ \A c \in InstallConstraints : Fulfilling(c) \cap F # {}

\* C1 witness: an optimal solver's emitted list that removes and installs, for an install
\* constraint, ending in a state one member of which has both a dependency
\* disjunction and a conflict.
C1_Witness ==
    /\ Emitted
    /\ optimal
    /\ InstallConstraints # {}
    /\ \E i, j \in 1..Len(commands) : commands[i].op = "-" /\ commands[j].op = "+"
    /\ \E p \in F : dependencies[p] # <<>> /\ conflicts[p] # <<>>

----------------------------------------------------------------------------
(* C2 *)

\* C2 (as claimed): the final state of an emitted command list holds no
\* package fulfilling an uninstall constraint, also when several versions
\* fulfil it. Stated for the answers of an optimal solver only.
C2_NoUninstallSatisfierInF ==
    (Emitted /\ optimal) =>
        \A c \in UninstallConstraints : Fulfilling(c) \cap F = {}

----------------------------------------------------------------------------
(* C3 *)

\* C3: when a "+p" of the emitted list is applied, every resolved dependency
\* disjunction of p has a member in the current state.
C3_InstallOrdering ==
    Emitted =>
        \A i \in 1..Len(commands) :
            commands[i].op = "+" =>
                \A p \in Named(repository_data, commands[i]) :
                    \A k \in 1..Len(dependencies[p]) :
                        Witnessed(dependencies[p][k], Current(i))

\* C3 witness: an optimal solver's emitted list installs p after q, and a dependency disjunction
\* of p has no member in the initial state and q as a member.
C3_Witness ==
    /\ Emitted
    /\ optimal
    /\ \E i, j \in 1..Len(commands) :
         /\ i < j
         /\ commands[i].op = "+"
         /\ commands[j].op = "+"
         /\ \E p \in Named(repository_data, commands[j]) :
              \E q \in Named(repository_data, commands[i]) :
                \E k \in 1..Len(dependencies[p]) :
                    /\ In(q, dependencies[p][k])
                    /\ ~Witnessed(dependencies[p][k], Range(initial))

----------------------------------------------------------------------------
(* C4 *)

\* C4 (as claimed): when a "-p" of the emitted list is applied, no package
\* that stays in the state has a resolved dependency disjunction whose members
\* in the current state are only p. Stated for the answers of an optimal
\* solver only, and for uninstall constraints that one package each fulfils.
C4_UninstallOrdering ==
    (/\ Emitted
     /\ optimal
     /\ \A c \in UninstallConstraints : Cardinality(Fulfilling(c)) = 1) =>
        \A i \in 1..Len(commands) :
            commands[i].op = "-" =>
                \A p \in Named(repository_data, commands[i]) :
                    \A q \in Current(i) \ {p} :
                        \A k \in 1..Len(dependencies[q]) :
                            Range(dependencies[q][k]) \cap Current(i) # {p}

----------------------------------------------------------------------------
(* C5 *)

\* C5 (as claimed): the resolver run again on the final state of its own
\* command list, every solver answer being optimal, emits the empty list.
C5_Idempotence ==
    (run = 2 /\ Emitted /\ optimal) => commands = <<>>

----------------------------------------------------------------------------
(* C6 *)

\* an initial reference or an uninstall constraint that no package fulfils
UnknownReference ==
    \/ \E i \in 1..Len(initial_data) : Fulfilling(initial_data[i]) = {}
    \/ \E c \in UninstallConstraints : Fulfilling(c) = {}

\* C6 (as claimed): with an initial reference or an uninstall constraint that
\* no package version fulfils, parse ends in a fatal error and no command list
\* is produced.
C6_UnknownReferenceFatal ==
    (UnknownReference /\ pc # "parse") => pc = "fatal"

----------------------------------------------------------------------------
(* C7 *)

\* C7 (as claimed): after the resolution pass no member of a resolved
\* dependency disjunction of P is in P's resolved conflicts, and no resolved
\* disjunction holds a package twice.
C7_DisjunctionsRationalised ==
    pc # "parse" =>
        \A p \in 1..Len(repository_data) :
            \A k \in 1..Len(dependencies[p]) :
                LET d == dependencies[p][k]
                IN  /\ \A i \in 1..Len(d) : ~In(d[i], conflicts[p])
                    /\ \A i, j \in 1..Len(d) : d[i] = d[j] => i = j

----------------------------------------------------------------------------
(* C8 *)

\* C8 (as claimed): after the resolution pass no package has an empty resolved
\* dependency disjunction.
C8_NoEmptyDisjunction ==
    pc # "parse" =>
        \A p \in 1..Len(repository_data) :
            \A k \in 1..Len(dependencies[p]) : dependencies[p][k] # <<>>

\* the raw dependency disjunctions of package p with a match in the repository
MatchedDisjunctions(p) ==
    {i \in 1..Len(repository_data[p].depends) :
        \E k \in 1..Len(repository_data[p].depends[i]) :
            Fulfilling(repository_data[p].depends[i][k]) # {}}

\* C8 (amended): after the resolution pass a package has one resolved
\* disjunction for every raw disjunction with a match in the repository, one
\* emptied by rationalisation included; a package with an empty resolved
\* disjunction is in no final state of an emitted command list.
C8_EmptiedDisjunctionKept ==
    /\ pc # "parse" =>
          \A p \in 1..Len(repository_data) :
              Len(dependencies[p]) = Cardinality(MatchedDisjunctions(p))
    /\ Emitted =>
          \A p \in F : \A k \in 1..Len(dependencies[p]) : dependencies[p][k] # <<>>

\* C8 witness: an optimal solver's emitted list for an initial state holding a
\* package whose disjunction rationalisation emptied.
C8_Witness ==
    /\ Emitted
    /\ optimal
    /\ \E p \in Range(initial) :
         \E k \in 1..Len(dependencies[p]) : dependencies[p][k] = <<>>

----------------------------------------------------------------------------
(* C9 *)

\* the clause lines of the formula as solve_wcnf first builds it
FirstFormula ==
    problem_to_wcnf(repository_data, dependencies, conflicts,
                    initial, uninstall, install).clauses

\* the install side's toposort has just failed with a cycle
CycleCaught == pc = "solve" /\ error = "ToposortError"

\* the literals of the last clause line of the formula
LastLiterals == Range(wcnf[Len(wcnf)].lits)

\* C9 (as claimed): after each cycle exactly one clause of weight MAX_WEIGHT
\* has been appended, its literals the negations of selected minus initial.
\* Stated for the answers of an optimal solver only.
C9_BlocksToInstallSet ==
    (CycleCaught /\ optimal) =>
        /\ Len(wcnf) = Len(FirstFormula) + retries
        /\ wcnf[Len(wcnf)].weight = <<UNINSTALL_COST, UNINSTALL_COST>>
        /\ LastLiterals = {-p : p \in Range(add_p) \ Range(initial)}

\* C9 (amended): after each cycle exactly one clause of weight MAX_WEIGHT has
\* been appended, its literals the negations of every package the solver
\* selected, those of the initial state included, each once.
C9_BlocksSelectedSet ==
    CycleCaught =>
        /\ Len(wcnf) = Len(FirstFormula) + retries
        /\ retries >= 1
        /\ SubSeq(wcnf, 1, Len(FirstFormula)) = FirstFormula
        /\ wcnf[Len(wcnf)].weight = <<UNINSTALL_COST, UNINSTALL_COST>>
        /\ LastLiterals = {-p : p \in Range(add_p)}
        /\ Len(wcnf[Len(wcnf)].lits) = Len(add_p)

\* C9 witness: a cycle was caught while an optimal solver selected a package
\* of the initial state.
C9_Witness ==
    /\ CycleCaught
    /\ optimal
    /\ Range(add_p) \cap Range(initial) # {}
    /\ Range(add_p) \ Range(initial) # {}

----------------------------------------------------------------------------
(* C10 *)

\* the graph and the output of the install side's toposort in the iteration
\* that emitted the command list
InstallGraph ==
    LET ini == remove_p_to_commands(repository_data, dependencies, remove_p,
                                    initial).initial
    IN  AddGraph(dependencies, Filter(add_p, (1..Len(repository_data)) \ Range(ini)),
                 ini)
InstallOrder ==
    toposort(InstallGraph.keys, InstallGraph.nodes, InstallGraph.count).output

\* the nodes whose in-degree is zero once the nodes of the set removed are gone
ZeroInDegree(g, removed) ==
    {k \in Range(g.keys) \ removed :
        g.count[k] = Sum([o \in removed |-> CountIn(g.nodes[o], {k})], removed)}

\* C10 (as claimed): every node toposort removes is the one of smallest sat_id
\* among the nodes whose in-degree is zero at that step, whatever the order of
\* the keys of nodes. Stated for the answers of an optimal solver only.
C10_SmallestFirst ==
    (Emitted /\ optimal) =>
        \A i \in 1..Len(InstallOrder) :
            LET zero == ZeroInDegree(InstallGraph,
                                     {InstallOrder[j] : j \in 1..(i - 1)})
            IN  /\ InstallOrder[i] \in zero
                /\ \A z \in zero : InstallOrder[i] <= z

----------------------------------------------------------------------------
(* C11 *)

\* the positions at which main has a next step to take
Running == {"parse", "encode", "solve"}

\* where main is: its position and the number of the iteration of the loop
position == <<pc, retries>>

\* main moves on: it leaves its position, or the loop starts its next iteration
Advance ==
    /\ pc \in Running
    /\ pc' \in {"encode", "solve", "done", "fatal"}
    /\ retries' \in {retries, retries + 1}

\* main has a step to take wherever it is running: parse and
\* problem_to_wcnf return or raise, and the solver either prints no "v" line
\* or returns an answer whose iteration emits, retries or raises
CanStep ==
    \/ pc \in {"parse", "encode"}
    \/ /\ pc = "solve"
       /\ \/ Models(wcnf, Len(repository_data)) = {}
          \/ \E S \in Models(wcnf, Len(repository_data)) :
               \E add \in Orderings(S) :
                 \E rem \in Orderings((1..Len(repository_data)) \ S) :
                   Iteration(repository_data, dependencies, initial, rem, add).outcome
                       \in {"done", "retry", "fatal"}

\* one invocation of main: every step but the second invocation
Invocation == Parse \/ Encode \/ SolverFails \/ Emit \/ Retry \/ Abort

\* one invocation of main. main is sequential code and the solver is assumed
\* to return: while main is running, its next step is taken.
FairSpec == Init /\ [][Invocation]_vars /\ WF_position(Advance)

\* the loop of solve_wcnf has been left
LoopLeft == pc \in {"done", "fatal"}

\* the selected set the clause line number i appended by the loop excludes
Excluded(i) ==
    LET lits == wcnf[Len(FirstFormula) + i].lits
    IN  {IF lits[k] < 0 THEN -lits[k] ELSE lits[k] : k \in 1..Len(lits)}

\* the selected sets that caused a ToposortError so far
Rejected == {Excluded(i) : i \in 1..retries}

\* the last answer of the solver was looked at by an iteration that ended the loop
AnswerEndedLoop == LoopLeft /\ retries >= 1 /\ error # "SATError"

\* the selected sets the loop received are pairwise different: every rejected
\* one was rejected once, and the one that ended the loop was none of them
NoSelectionTwice ==
    /\ Cardinality(Rejected) = retries
    /\ AnswerEndedLoop => Range(add_p) \notin Rejected

\* a selected set that is rejected has a package to install
RejectedNonEmpty == \A i \in 1..retries : Excluded(i) # {}

\* the fatal ends of the loop: the solver found the formula unsatisfiable, or
\* the ordering of the uninstall side failed
FatalEnds ==
    (pc = "solve" /\ pc' = "fatal") => error' \in {"SATError", "ToposortError"}

\* every step of the invocation moves main on, and main has a step to take
\* wherever it is running: the fairness of FairSpec asks for no more than
\* that main does not stall
EveryStepAdvances == Advance /\ position' # position

\* C11: the loop of solve_wcnf never receives the same selected set twice (so
\* there are fewer retries than subsets of the repository), a fatal end is a
\* SATError or the uncaught ToposortError of the uninstall side, and once the
\* loop is entered it is left: the invocation emits a command list or ends in
\* a fatal error.
C11_LoopTerminates ==
    /\ [](NoSelectionTwice /\ RejectedNonEmpty)
    /\ [](pc \in Running => CanStep)
    /\ [][EveryStepAdvances]_vars
    /\ [][FatalEnds]_vars
    /\ [](retries < 2 ^ Len(repository_data))
    /\ (pc = "solve") ~> LoopLeft

\* C11 witness: an optimal solver's first answer had a dependency cycle, the
\* clause excluding it was appended, and the next answer was emitted.
C11_Witness ==
    /\ pc = "done"
    /\ optimal
    /\ retries >= 1
    /\ commands # <<>>

====
